---- MODULE Spec2Model ----
(***************************************************************************)
(* MediGuide: the relay servers and the web client.                        *)
(*                                                                         *)
(* Two server programs live in the repository: src/index.js (GET /google   *)
(* and POST /gemini) and src/server/index.js (GET /google only).  Each is   *)
(* an express application whose route handlers forward a request to a      *)
(* Google upstream with fetch() and relay the answer.  Strings are         *)
(* sequences of one-character strings, so that building and parsing a URL  *)
(* are real operations.                                                    *)
(*                                                                         *)
(* The client (src/unnamed/part_000) is the React component App.  Each of  *)
(* its handlers is an action up to its await and another from the await    *)
(* on; SpecSearch, SpecScan and SpecChat run the handlers of the search,   *)
(* of the scanner and of the chat.                                         *)
(***************************************************************************)
EXTENDS Integers, Sequences, FiniteSets, TLC

VARIABLES variant, env, envReads, listening, port, reqs

\* the web client (the React component App): its state, and the timers,
\* API calls and camera requests it has pending
\*   issued      number of asynchronous operations started so far
\*   timers      the pending setTimeout callbacks of the suggestions effect
\*   videoSrc    videoRef.current.srcObject (0 is null), streams the media
\*               streams whose tracks are live
\*   rendered    the chatHistory, isChatOpen and chatLoading of the last
\*               committed render: what is on the screen, and what the
\*               handlers of that render close over
VARIABLES issued,
          query, timers, suggestions, loadingSuggestions, suggCalls,
          selectedMedicine, loading, detailCalls,
          showScannerModal, isCameraActive, videoSrc, mediaCalls, streams,
          fileReads,
          isChatOpen, chatHistory, chatInput, chatLoading, chatCalls, rendered

serverVars == <<variant, env, envReads, listening, port, reqs>>

searchVars == <<query, timers, suggestions, loadingSuggestions, suggCalls>>

detailVars == <<selectedMedicine, loading, detailCalls>>

cameraVars ==
    <<showScannerModal, isCameraActive, videoSrc, mediaCalls, streams, fileReads>>

chatVars == <<isChatOpen, chatHistory, chatInput, chatLoading, chatCalls, rendered>>

clientVars == <<issued, searchVars, detailVars, cameraVars, chatVars>>

vars == <<serverVars, clientVars>>

----------------------------------------------------------------------------
(* Bounds *)

\* number of requests one run of the server handles (all may be in flight at once)
MaxReq == 2

ReqIds == 1..MaxReq

\* number of asynchronous operations (API calls, camera requests, file
\* reads) one run of the client starts
MaxCalls == 3

\* the clock advances in steps of TickMs while a timer is younger than MaxAge
TickMs == 300

MaxAge == 600

----------------------------------------------------------------------------
(* JavaScript values and strings *)

\* the JavaScript value undefined (an absent query parameter, an unset variable)
Undefined == <<"<undefined>">>

\* String(v), as a template literal and encodeURIComponent apply it
StringOf(v) == IF v = Undefined THEN <<"u","n","d","e","f","i","n","e","d">> ELSE v

RECURSIVE Concat(_)
Concat(ss) == IF ss = <<>> THEN <<>> ELSE Head(ss) \o Concat(Tail(ss))

\* the escape of one character: everything but the unreserved characters
\* A-Z a-z 0-9 - _ . ! ~ * ' ( ) becomes %XX
PercentCode(c) ==
    CASE c = " " -> <<"%","2","0">>
      [] c = "%" -> <<"%","2","5">>
      [] c = "&" -> <<"%","2","6">>
      [] c = "=" -> <<"%","3","D">>
      [] c = "?" -> <<"%","3","F">>
      [] OTHER   -> <<c>>

encodeURIComponentRaw(v) == StringOf(v)

encodeURIComponentEmptyUndefined(v) ==
    IF v = Undefined THEN <<>>
    ELSE Concat([i \in 1..Len(v) |-> PercentCode(v[i])])

encodeURIComponent(v) ==
    LET s == StringOf(v) IN Concat([i \in 1..Len(s) |-> PercentCode(s[i])])

----------------------------------------------------------------------------
(* JSON *)

\* A JSON object text is its member list in textual order; " " is
\* insignificant whitespace between members and a key may be repeated.
\* A parsed object is the ordered list of its distinct keys with their values.

RECURSIVE JSONparse(_)
JSONparse(text) ==
    IF text = <<>> THEN <<>>
    ELSE LET front == JSONparse(SubSeq(text, 1, Len(text) - 1))
             m     == text[Len(text)]
         IN  IF m = <<" ">> THEN front
             ELSE IF \E i \in 1..Len(front) : front[i].key = m[1]
                  THEN [i \in 1..Len(front) |->
                          IF front[i].key = m[1]
                          THEN [key |-> m[1], value |-> m[2]] ELSE front[i]]
                  ELSE Append(front, [key |-> m[1], value |-> m[2]])

JSONstringify(obj) == [i \in 1..Len(obj) |-> <<obj[i].key, obj[i].value>>]

\* express.json(): the request body text becomes req.body
expressJson(raw) == JSONparse(raw)

----------------------------------------------------------------------------
(* Inputs *)

Queries ==
    { <<"p"," ","n">>,
      <<"&","k","e","y","=","x">> }

\* req.query.query: a string, or undefined when the parameter is absent
QueryInputs == Queries \cup {Undefined}

Bodies ==
    { << <<"generationConfig", "json">>, <<"contents", "hi">> >>,
      << <<" ">>, <<"contents", "hi">>, <<" ">>, <<"contents", "yo">> >> }

\* process.env.GOOGLE_API_KEY: unset, set to the empty string, or set
KeyValues == { Undefined, <<>>, <<"K","1">> }

\* process.env.PORT: unset or set
PortValues == { Undefined, <<"8","0">> }

\* what an upstream answers
UpStatuses == {200, 403}

UpData == { [results |-> "places"], [error_message |-> "denied"] }

FetchErrors == { "fetch failed" }

JsonErrors == { "invalid json response body" }

----------------------------------------------------------------------------
(* The handlers' pure parts *)

PlacesBase == <<"https://maps.googleapis.com/maps/api/place/textsearch/json">>

GeminiBase == <<"https://generativelanguage.googleapis.com/v1beta/models/gemini-2.5-flash-preview-09-2025:generateContent">>

PlacesUrlDefaultKey(q, key) ==
    PlacesBase \o <<"?","q","u","e","r","y","=">> \o encodeURIComponent(q)
               \o <<"&","k","e","y","=">>
               \o (IF key = Undefined \/ key = <<>> THEN <<"D">> ELSE key)

PlacesUrl(q, key) ==
    PlacesBase \o <<"?","q","u","e","r","y","=">> \o encodeURIComponent(q)
               \o <<"&","k","e","y","=">> \o StringOf(key)

GeminiUrl(key) == GeminiBase \o <<"?","k","e","y","=">> \o StringOf(key)

PlacesCall(q, key) ==
    [method |-> "GET", url |-> PlacesUrl(q, key), body |-> <<>>]

GeminiCallWrapped(body, key) ==
    [method |-> "POST", url |-> GeminiUrl(key),
     body |-> JSONstringify(Append(body, [key |-> "model", value |-> "gemini"]))]

GeminiCall(body, key) ==
    [method |-> "POST", url |-> GeminiUrl(key), body |-> JSONstringify(body)]

GoogleSuccessMirror(status, data) == [status |-> status, body |-> data]

\* res.json(data)
GoogleSuccess(status, data) == [status |-> 200, body |-> data]

\* res.status(response.status).json(data)
GeminiSuccess(status, data) == [status |-> status, body |-> data]

GoogleCatchNoMessage(message) == [status |-> 500, body |-> [error |-> "Server Error"]]

GoogleCatch(message) ==
    [status |-> 500, body |-> [error |-> "Server Error", message |-> message]]

GeminiCatch(message) ==
    [status |-> 500, body |-> [error |-> "Server error", message |-> message]]

Catch(route, message) ==
    IF route = "google" THEN GoogleCatch(message) ELSE GeminiCatch(message)

Success(route, status, data) ==
    IF route = "google" THEN GoogleSuccess(status, data) ELSE GeminiSuccess(status, data)

\* the default port 3000, written as its digits like the value of PORT
DefaultPort == <<"3","0","0","0">>

ListenPortFromEnvOnly(e) == StringOf(e.PORT)

\* process.env.PORT || 3000
ListenPort(e) == IF e.PORT = Undefined \/ e.PORT = <<>> THEN DefaultPort ELSE e.PORT

\* the methods cors() allows in its answer to a preflight
CorsMethods == {"GET", "HEAD", "PUT", "PATCH", "POST", "DELETE"}

corsGetOnly(verb) ==
    IF verb = "OPTIONS"
    THEN [origin |-> "*", methods |-> {"GET", "HEAD"}]
    ELSE [origin |-> "*"]

\* app.use(cors()): the headers the middleware sets on the response before
\* any route runs; it answers an OPTIONS request itself
cors(verb) ==
    IF verb = "OPTIONS"
    THEN [origin |-> "*", methods |-> CorsMethods]
    ELSE [origin |-> "*"]

\* the status of cors()'s answer to a preflight
PreflightStatus == 204

----------------------------------------------------------------------------
(* The client at mount *)

\* the JavaScript value null
Null == [null |-> TRUE]

\* the first entry of chatHistory
Greeting ==
    [role |-> "assistant",
     text |-> <<"Hello! I'm MediBot. Ask me medical questions, search for medicines, or scan a package for details.">>]

\* setTimeout(fetchSuggestions, 600)
DebounceMs == 600

\* if (query.length < 3)
MinQueryLen == 3

\* the state after the first render of App and its first effect, which
\* starts the timer for the empty query
ClientStart ==
    /\ issued = 0
    /\ query = <<>>
    /\ timers = {[q |-> <<>>, age |-> 0]}
    /\ suggestions = <<>>
    /\ loadingSuggestions = FALSE
    /\ suggCalls = {}
    /\ selectedMedicine = Null
    /\ loading = FALSE
    /\ detailCalls = {}
    /\ showScannerModal = FALSE
    /\ isCameraActive = FALSE
    /\ videoSrc = 0
    /\ mediaCalls = {}
    /\ streams = {}
    /\ fileReads = 0
    /\ isChatOpen = FALSE
    /\ chatHistory = <<Greeting>>
    /\ chatInput = <<>>
    /\ chatLoading = FALSE
    /\ chatCalls = {}
    /\ rendered = [chatHistory |-> <<Greeting>>, isChatOpen |-> FALSE,
                   chatLoading |-> FALSE]

----------------------------------------------------------------------------
(* State *)

NoUp == [state |-> "none", status |-> 0, data |-> <<>>, err |-> ""]

IdleReq ==
    [pc |-> "idle", route |-> "", query |-> Undefined, raw |-> <<>>,
     sent |-> <<>>, up |-> NoUp, res |-> <<>>, hdr |-> <<>>]

Init ==
    /\ variant \in {"index", "server"}
    /\ env \in [GOOGLE_API_KEY : KeyValues, PORT : PortValues]
    /\ envReads = {}
    /\ listening = FALSE
    /\ port = <<>>
    /\ reqs = [r \in ReqIds |-> IdleReq]
    /\ ClientStart

\* requests are numbered in their order of arrival
CanAccept(r) ==
    /\ listening
    /\ reqs[r].pc = "idle"
    /\ IF r = 1 THEN TRUE ELSE reqs[r - 1].pc # "idle"

\* const PORT = process.env.PORT || 3000; app.listen(PORT, ...)
Startup ==
    /\ ~listening
    /\ port' = ListenPort(env)
    /\ envReads' = envReads \cup {<<"PORT", "startup">>}
    /\ listening' = TRUE
    /\ UNCHANGED <<variant, env, reqs>>
    /\ UNCHANGED clientVars

\* a handler that forgets to await fetch(url): response.json is not a
\* function, and the catch block answers while the call is still pending
GetGoogleNoAwait(r, q) ==
    /\ CanAccept(r)
    /\ envReads' = envReads \cup {<<"GOOGLE_API_KEY", "handler">>}
    /\ reqs' = [reqs EXCEPT ![r] =
                 [@ EXCEPT !.pc = "done", !.route = "google", !.query = q,
                           !.hdr = cors("GET"),
                           !.sent = Append(@, PlacesCall(q, env.GOOGLE_API_KEY)),
                           !.up = [NoUp EXCEPT !.state = "pending"],
                           !.res = Append(@, GoogleCatch("response.json is not a function"))]]
    /\ UNCHANGED <<variant, env, listening, port>>
    /\ UNCHANGED clientVars

\* app.get("/google"), up to the await of fetch(url)
GetGoogle(r, q) ==
    /\ CanAccept(r)
    /\ envReads' = envReads \cup {<<"GOOGLE_API_KEY", "handler">>}
    /\ reqs' = [reqs EXCEPT ![r] =
                 [@ EXCEPT !.pc = "fetch", !.route = "google", !.query = q,
                           !.hdr = cors("GET"),
                           !.sent = Append(@, PlacesCall(q, env.GOOGLE_API_KEY)),
                           !.up = [NoUp EXCEPT !.state = "pending"]]]
    /\ UNCHANGED <<variant, env, listening, port>>
    /\ UNCHANGED clientVars

\* app.post("/gemini") of src/index.js, up to the await of fetch(googleUrl, ...)
PostGemini(r, raw) ==
    /\ CanAccept(r)
    /\ variant = "index"
    /\ envReads' = envReads \cup {<<"GOOGLE_API_KEY", "handler">>}
    /\ reqs' = [reqs EXCEPT ![r] =
                 [@ EXCEPT !.pc = "fetch", !.route = "gemini", !.raw = raw,
                           !.hdr = cors("POST"),
                           !.sent = Append(@, GeminiCall(expressJson(raw), env.GOOGLE_API_KEY)),
                           !.up = [NoUp EXCEPT !.state = "pending"]]]
    /\ UNCHANGED <<variant, env, listening, port>>
    /\ UNCHANGED clientVars

\* src/server/index.js has no /gemini route: express answers 404 itself
NotFound(r, raw) ==
    /\ CanAccept(r)
    /\ variant = "server"
    /\ reqs' = [reqs EXCEPT ![r] =
                 [@ EXCEPT !.pc = "done", !.route = "gemini", !.raw = raw,
                           !.hdr = cors("POST"),
                           !.res = Append(@, [status |-> 404, body |-> [notFound |-> "/gemini"]])]]
    /\ UNCHANGED <<variant, env, envReads, listening, port>>
    /\ UNCHANGED clientVars

\* fetch() resolves with the upstream's status line; the handler goes on to
\* await response.json()
FetchResolves(r, status) ==
    /\ reqs[r].pc = "fetch"
    /\ reqs' = [reqs EXCEPT ![r] =
                 [@ EXCEPT !.pc = "json",
                           !.up = [@ EXCEPT !.state = "headers", !.status = status]]]
    /\ UNCHANGED <<variant, env, envReads, listening, port>>
    /\ UNCHANGED clientVars

\* a handler that tries the upstream call a second time before giving up
FetchRejectsRetry(r, message) ==
    /\ reqs[r].pc = "fetch"
    /\ reqs' = [reqs EXCEPT ![r] =
                 IF Len(@.sent) < 2
                 THEN [@ EXCEPT !.sent = Append(@, @[1])]
                 ELSE [@ EXCEPT !.pc = "done",
                                !.up = [@ EXCEPT !.state = "rejected", !.err = message],
                                !.res = Append(@, Catch(reqs[r].route, message))]]
    /\ UNCHANGED <<variant, env, envReads, listening, port>>
    /\ UNCHANGED clientVars

\* fetch() rejects; the catch block answers
FetchRejects(r, message) ==
    /\ reqs[r].pc = "fetch"
    /\ reqs' = [reqs EXCEPT ![r] =
                 [@ EXCEPT !.pc = "done",
                           !.up = [@ EXCEPT !.state = "rejected", !.err = message],
                           !.res = Append(@, Catch(reqs[r].route, message))]]
    /\ UNCHANGED <<variant, env, envReads, listening, port>>
    /\ UNCHANGED clientVars

\* a handler that keeps the decoded body in a variable shared by all requests
JsonResolvesShared(r, data) ==
    /\ reqs[r].pc = "json"
    /\ LET others == {q \in ReqIds \ {r} : reqs[q].up.state = "body"}
           shared == IF others = {} THEN data
                     ELSE reqs[CHOOSE q \in others : TRUE].up.data
       IN reqs' = [reqs EXCEPT ![r] =
                 [@ EXCEPT !.pc = "done",
                           !.up = [@ EXCEPT !.state = "body", !.data = data],
                           !.res = Append(@, Success(reqs[r].route, reqs[r].up.status, shared))]]
    /\ UNCHANGED <<variant, env, envReads, listening, port>>
    /\ UNCHANGED clientVars

\* response.json() resolves with the decoded body; the handler relays it
JsonResolves(r, data) ==
    /\ reqs[r].pc = "json"
    /\ reqs' = [reqs EXCEPT ![r] =
                 [@ EXCEPT !.pc = "done",
                           !.up = [@ EXCEPT !.state = "body", !.data = data],
                           !.res = Append(@, Success(reqs[r].route, reqs[r].up.status, data))]]
    /\ UNCHANGED <<variant, env, envReads, listening, port>>
    /\ UNCHANGED clientVars

\* response.json() rejects (the body does not decode); the catch block answers
JsonRejects(r, message) ==
    /\ reqs[r].pc = "json"
    /\ reqs' = [reqs EXCEPT ![r] =
                 [@ EXCEPT !.pc = "done",
                           !.up = [@ EXCEPT !.state = "badbody", !.err = message],
                           !.res = Append(@, Catch(reqs[r].route, message))]]
    /\ UNCHANGED <<variant, env, envReads, listening, port>>
    /\ UNCHANGED clientVars

Next ==
    \/ Startup
    \/ \E r \in ReqIds, q \in QueryInputs : GetGoogle(r, q)
    \/ \E r \in ReqIds, b \in Bodies : PostGemini(r, b)
    \/ \E r \in ReqIds, b \in Bodies : NotFound(r, b)
    \/ \E r \in ReqIds, s \in UpStatuses : FetchResolves(r, s)
    \/ \E r \in ReqIds, m \in FetchErrors : FetchRejects(r, m)
    \/ \E r \in ReqIds, d \in UpData : JsonResolves(r, d)
    \/ \E r \in ReqIds, m \in JsonErrors : JsonRejects(r, m)

Spec == Init /\ [][Next]_vars

----------------------------------------------------------------------------
(* The two server programs side by side *)

\* src/server/index.js, app.get("/google")
ServerPlacesUrl(q, key) ==
    PlacesBase \o <<"?","q","u","e","r","y","=">> \o encodeURIComponent(q)
               \o <<"&","k","e","y","=">> \o StringOf(key)

ServerPlacesCall(q, key) ==
    [method |-> "GET", url |-> ServerPlacesUrl(q, key), body |-> <<>>]

ServerGoogleSuccessMirror(status, data) == [status |-> status, body |-> data]

ServerGoogleSuccess(status, data) == [status |-> 200, body |-> data]

ServerGoogleCatch(message) ==
    [status |-> 500, body |-> [error |-> "Server Error", message |-> message]]

\* the answer of express when no route matches
NoRoute(path) == [status |-> 404, body |-> [notFound |-> path]]

\* Slot 1 is a request to the program src/index.js and slot 2 the same
\* request to the program src/server/index.js; both run in the same
\* environment and their upstream calls meet the same fate.
IndexSlot == 1

ServerSlot == 2

InitPair ==
    /\ variant = "both"
    /\ env \in [GOOGLE_API_KEY : KeyValues, PORT : PortValues]
    /\ envReads = {}
    /\ listening = FALSE
    /\ port = <<>>
    /\ reqs = [r \in ReqIds |-> IdleReq]
    /\ ClientStart

PairIdle ==
    /\ listening
    /\ reqs[IndexSlot].pc = "idle"
    /\ reqs[ServerSlot].pc = "idle"

Issued(rec, route, q, raw, verb, call) ==
    [rec EXCEPT !.pc = "fetch", !.route = route, !.query = q, !.raw = raw,
                !.hdr = cors(verb),
                !.sent = Append(@, call),
                !.up = [NoUp EXCEPT !.state = "pending"]]

Ended(rec, state, message, data, response) ==
    [rec EXCEPT !.pc = "done",
                !.up = [@ EXCEPT !.state = state, !.err = message, !.data = data],
                !.res = Append(@, response)]

\* GET /google?query=q to both programs
PairGet(q) ==
    /\ PairIdle
    /\ envReads' = envReads \cup {<<"GOOGLE_API_KEY", "handler">>}
    /\ reqs' = [reqs EXCEPT
                 ![IndexSlot] = Issued(@, "google", q, <<>>, "GET",
                                       PlacesCall(q, env.GOOGLE_API_KEY)),
                 ![ServerSlot] = Issued(@, "google", q, <<>>, "GET",
                                        ServerPlacesCall(q, env.GOOGLE_API_KEY))]
    /\ UNCHANGED <<variant, env, listening, port>>
    /\ UNCHANGED clientVars

\* POST /gemini to both programs: only src/index.js has the route
PairPost(raw) ==
    /\ PairIdle
    /\ envReads' = envReads \cup {<<"GOOGLE_API_KEY", "handler">>}
    /\ reqs' = [reqs EXCEPT
                 ![IndexSlot] = Issued(@, "gemini", Undefined, raw, "POST",
                                       GeminiCall(expressJson(raw), env.GOOGLE_API_KEY)),
                 ![ServerSlot] = [@ EXCEPT !.pc = "done", !.route = "gemini", !.raw = raw,
                                           !.hdr = cors("POST"),
                                           !.res = Append(@, NoRoute("/gemini"))]]
    /\ UNCHANGED <<variant, env, listening, port>>
    /\ UNCHANGED clientVars

\* an OPTIONS preflight to both programs: cors() answers before any route
PairPreflight(path) ==
    /\ PairIdle
    /\ reqs' = [reqs EXCEPT
                 ![IndexSlot] = [@ EXCEPT !.pc = "done", !.route = path,
                                          !.hdr = cors("OPTIONS"),
                                          !.res = Append(@, [status |-> PreflightStatus, body |-> <<>>])],
                 ![ServerSlot] = [@ EXCEPT !.pc = "done", !.route = path,
                                           !.hdr = cors("OPTIONS"),
                                           !.res = Append(@, [status |-> PreflightStatus, body |-> <<>>])]]
    /\ UNCHANGED <<variant, env, envReads, listening, port>>
    /\ UNCHANGED clientVars

\* the step of one slot when fetch() resolves
SlotFetchResolves(rec, status) ==
    IF rec.pc # "fetch" THEN rec
    ELSE [rec EXCEPT !.pc = "json",
                     !.up = [@ EXCEPT !.state = "headers", !.status = status]]

PairFetchResolves(status) ==
    /\ reqs[IndexSlot].pc = "fetch"
    /\ reqs' = [reqs EXCEPT ![IndexSlot] = SlotFetchResolves(@, status),
                            ![ServerSlot] = SlotFetchResolves(@, status)]
    /\ UNCHANGED <<variant, env, envReads, listening, port>>
    /\ UNCHANGED clientVars

PairFetchRejects(message) ==
    /\ reqs[IndexSlot].pc = "fetch"
    /\ reqs' = [reqs EXCEPT
                 ![IndexSlot] = Ended(@, "rejected", message, @.up.data,
                                      Catch(@.route, message)),
                 ![ServerSlot] = IF @.pc # "fetch" THEN @
                                 ELSE Ended(@, "rejected", message, @.up.data,
                                            ServerGoogleCatch(message))]
    /\ UNCHANGED <<variant, env, envReads, listening, port>>
    /\ UNCHANGED clientVars

PairJsonResolves(data) ==
    /\ reqs[IndexSlot].pc = "json"
    /\ reqs' = [reqs EXCEPT
                 ![IndexSlot] = Ended(@, "body", "", data,
                                      Success(@.route, @.up.status, data)),
                 ![ServerSlot] = IF @.pc # "json" THEN @
                                 ELSE Ended(@, "body", "", data,
                                            ServerGoogleSuccess(@.up.status, data))]
    /\ UNCHANGED <<variant, env, envReads, listening, port>>
    /\ UNCHANGED clientVars

PairJsonRejects(message) ==
    /\ reqs[IndexSlot].pc = "json"
    /\ reqs' = [reqs EXCEPT
                 ![IndexSlot] = Ended(@, "badbody", message, @.up.data,
                                      Catch(@.route, message)),
                 ![ServerSlot] = IF @.pc # "json" THEN @
                                 ELSE Ended(@, "badbody", message, @.up.data,
                                            ServerGoogleCatch(message))]
    /\ UNCHANGED <<variant, env, envReads, listening, port>>
    /\ UNCHANGED clientVars

Paths == {"OPTIONS /google", "OPTIONS /gemini"}

NextPair ==
    \/ Startup
    \/ \E q \in QueryInputs : PairGet(q)
    \/ \E b \in Bodies : PairPost(b)
    \/ \E p \in Paths : PairPreflight(p)
    \/ \E s \in UpStatuses : PairFetchResolves(s)
    \/ \E m \in FetchErrors : PairFetchRejects(m)
    \/ \E d \in UpData : PairJsonResolves(d)
    \/ \E m \in JsonErrors : PairJsonRejects(m)

SpecPair == InitPair /\ [][NextPair]_vars

----------------------------------------------------------------------------
(* The client: callGeminiAPI and the texts it returns *)

\* a JavaScript string value
Text(s) == [text |-> s]

\* JSON.parse throws
SyntaxError == [error |-> "SyntaxError"]

\* JSON texts: an array of one suggestion, an object with a name; the name
\* <<>> gives "[]" and "{}"
ArrayText(name) == <<"[">> \o name \o <<"]">>

ObjectText(name) == <<"{">> \o name \o <<"}">>

Bracketed(text, open, close) ==
    Len(text) >= 2 /\ text[1] = open /\ text[Len(text)] = close

\* JSON.parse(result)
ParseReply(text) ==
    IF Bracketed(text, "[", "]")
    THEN [items |-> IF Len(text) = 2 THEN <<>>
                    ELSE <<[name |-> SubSeq(text, 2, Len(text) - 1)]>>]
    ELSE IF Bracketed(text, "{", "}")
    THEN [name |-> IF Len(text) = 2 THEN Undefined
                   ELSE SubSeq(text, 2, Len(text) - 1)]
    ELSE SyntaxError

\* Array.isArray(parsed)
IsArray(v) == "items" \in DOMAIN v

\* data.name is truthy
HasName(v) ==
    IF "name" \in DOMAIN v THEN v.name # Undefined /\ v.name # <<>> ELSE FALSE

\* what fetch() and response.json() can do with one call about a subject:
\* fetch rejects, the status is not ok, the body has no candidate text, the
\* text is empty, or it is one of the texts above or is not JSON
Outcomes(subject) ==
    {[kind |-> "reject", text |-> <<>>], [kind |-> "status", text |-> <<>>],
     [kind |-> "json", text |-> Undefined], [kind |-> "json", text |-> <<>>],
     [kind |-> "json", text |-> ArrayText(subject)],
     [kind |-> "json", text |-> ObjectText(subject)],
     [kind |-> "json", text |-> ObjectText(<<>>)],
     [kind |-> "json", text |-> <<"o","o","p","s">>]}

\* the value callGeminiAPI resolves to: the candidate text, or null
callGeminiAPI(o) ==
    IF o.kind = "reject" \/ o.kind = "status" THEN Null
    ELSE IF o.text = Undefined \/ o.text = <<>> THEN Null
    ELSE Text(o.text)

----------------------------------------------------------------------------
(* The client: search and details *)

\* values typed into the search box
QueryTexts == {<<>>, <<"a","s">>, <<"a","s","p">>, <<"i","b","u">>}

\* the quick action buttons
QuickActions == {<<"A","s","p","i","r","i","n">>}

\* {!selectedMedicine && !loading && ( ... search box, suggestions ... )}
SearchViewShown == selectedMedicine = Null /\ ~loading

\* the effect without its cleanup
useEffectNoCleanup(v) ==
    IF v = query THEN timers ELSE timers \cup {[q |-> v, age |-> 0]}

\* useEffect(..., [query]) when the query becomes v: on a change the cleanup
\* clears the pending timer and the effect starts one for v
useEffect(v) ==
    IF v = query THEN timers ELSE {[q |-> v, age |-> 0]}

\* time passes
Tick ==
    /\ \E t \in timers : t.age < MaxAge
    /\ timers' = {[t EXCEPT !.age = @ + TickMs] : t \in timers}
    /\ UNCHANGED <<issued, query, suggestions, loadingSuggestions, suggCalls>>
    /\ UNCHANGED <<detailVars, cameraVars, chatVars, serverVars>>

\* onChange={(e) => setQuery(e.target.value)}
TypeQuery(v) ==
    /\ SearchViewShown
    /\ v # query
    /\ query' = v
    /\ timers' = useEffect(v)
    /\ UNCHANGED <<issued, suggestions, loadingSuggestions, suggCalls>>
    /\ UNCHANGED <<detailVars, cameraVars, chatVars, serverVars>>

\* fetchSuggestions, up to its await
TimerFires(t) ==
    /\ t \in timers
    /\ t.age >= DebounceMs
    /\ timers' = timers \ {t}
    /\ IF Len(t.q) < MinQueryLen
       THEN /\ suggestions' = <<>>
            /\ UNCHANGED <<issued, loadingSuggestions, suggCalls>>
       ELSE /\ issued < MaxCalls
            /\ issued' = issued + 1
            /\ loadingSuggestions' = TRUE
            /\ suggCalls' = suggCalls \cup {[id |-> issued + 1, q |-> t.q]}
            /\ UNCHANGED suggestions
    /\ UNCHANGED query
    /\ UNCHANGED <<detailVars, cameraVars, chatVars, serverVars>>

\* fetchSuggestions, from its await on
SuggestSettles(c, o) ==
    /\ c \in suggCalls
    /\ LET result == callGeminiAPI(o)
           parsed == ParseReply(result.text)
       IN  suggestions' =
               IF result = Null THEN suggestions
               ELSE IF parsed = SyntaxError THEN suggestions
               ELSE IF IsArray(parsed) THEN parsed.items ELSE <<>>
    /\ loadingSuggestions' = FALSE
    /\ suggCalls' = suggCalls \ {c}
    /\ UNCHANGED <<issued, query, timers>>
    /\ UNCHANGED <<detailVars, cameraVars, chatVars, serverVars>>

\* the names the buttons of the search view pass to handleSelectMedicine
Offered ==
    IF SearchViewShown
    THEN QuickActions \cup {suggestions[i].name : i \in 1..Len(suggestions)}
    ELSE {}

\* handleSelectMedicine, up to its await
handleSelectMedicine(medicineName) ==
    /\ medicineName \in Offered
    /\ issued < MaxCalls
    /\ issued' = issued + 1
    /\ query' = medicineName
    /\ timers' = useEffect(medicineName)
    /\ suggestions' = <<>>
    /\ loading' = TRUE
    /\ selectedMedicine' = Null
    /\ detailCalls' = detailCalls \cup
           {[id |-> issued + 1, kind |-> "select", about |-> medicineName]}
    /\ UNCHANGED <<loadingSuggestions, suggCalls>>
    /\ UNCHANGED <<cameraVars, chatVars, serverVars>>

\* handleSelectMedicine, from its await on
SelectSettles(c, o) ==
    /\ c \in detailCalls
    /\ c.kind = "select"
    /\ LET result == callGeminiAPI(o)
           data == ParseReply(result.text)
       IN  selectedMedicine' =
               IF result = Null THEN selectedMedicine
               ELSE IF HasName(data) THEN data ELSE selectedMedicine
    /\ loading' = FALSE
    /\ detailCalls' = detailCalls \ {c}
    /\ UNCHANGED <<issued, searchVars, cameraVars, chatVars, serverVars>>

\* the Search button of the header and the back button of the details view
\* onClick={() => {setSelectedMedicine(null); setQuery('')}}
GoSearch ==
    /\ selectedMedicine' = Null
    /\ query' = <<>>
    /\ timers' = useEffect(<<>>)
    /\ UNCHANGED <<issued, suggestions, loadingSuggestions, suggCalls>>
    /\ UNCHANGED <<loading, detailCalls, cameraVars, chatVars, serverVars>>

----------------------------------------------------------------------------
(* The client: scanner, camera and image analysis *)

\* an entry the application itself appends to the chat
Notice(text) == [role |-> "assistant", text |-> <<text>>]

NotIdentified ==
    Notice("I couldn't identify a medicine package in that image. Please ensure the label is clear and try again.")

FormatError ==
    Notice("Error analyzing image data. The AI may have returned an unexpected format. Please try again.")

CommunicationError ==
    Notice("A communication error occurred with the AI. Please check your connection and try again.")

CameraError ==
    Notice("Unable to access your device's camera. Please check your browser permissions.")

\* the medicine an analysed image shows
ImageSubject == <<"D","o","l","o">>

\* videoRef.current is the <video> element, which is rendered only in the
\* open modal with the camera active, and null otherwise
VideoMounted == showScannerModal /\ isCameraActive

\* stopCamera: the tracks of the stream attached to the video are stopped
stopCamera ==
    /\ streams' = IF VideoMounted /\ videoSrc # 0
                  THEN streams \ {videoSrc} ELSE streams
    /\ videoSrc' = 0
    /\ isCameraActive' = FALSE

\* onClick={() => setShowScannerModal(true)}
OpenScanner ==
    /\ ~showScannerModal
    /\ showScannerModal' = TRUE
    /\ UNCHANGED <<isCameraActive, videoSrc, mediaCalls, streams, fileReads>>
    /\ UNCHANGED <<issued, searchVars, detailVars, chatVars, serverVars>>

\* the close button of the modal: setShowScannerModal(false); stopCamera()
CloseScanner ==
    /\ showScannerModal
    /\ showScannerModal' = FALSE
    /\ stopCamera
    /\ UNCHANGED <<mediaCalls, fileReads>>
    /\ UNCHANGED <<issued, searchVars, detailVars, chatVars, serverVars>>

\* the cancel button under the video: onClick={stopCamera}
CancelCamera ==
    /\ VideoMounted
    /\ stopCamera
    /\ UNCHANGED <<showScannerModal, mediaCalls, fileReads>>
    /\ UNCHANGED <<issued, searchVars, detailVars, chatVars, serverVars>>

\* startCamera, up to its await
startCamera ==
    /\ showScannerModal
    /\ ~isCameraActive
    /\ issued < MaxCalls
    /\ issued' = issued + 1
    /\ isCameraActive' = TRUE
    /\ mediaCalls' = mediaCalls \cup {issued + 1}
    /\ UNCHANGED <<showScannerModal, videoSrc, streams, fileReads>>
    /\ UNCHANGED <<searchVars, detailVars, chatVars, serverVars>>

\* getUserMedia resolves with a live stream, which startCamera attaches to
\* the video if there is one
MediaResolves(id) ==
    /\ id \in mediaCalls
    /\ mediaCalls' = mediaCalls \ {id}
    /\ streams' = streams \cup {id}
    /\ videoSrc' = IF VideoMounted THEN id ELSE videoSrc
    /\ UNCHANGED <<showScannerModal, isCameraActive, fileReads>>
    /\ UNCHANGED <<issued, searchVars, detailVars, chatVars, serverVars>>

\* getUserMedia rejects: startCamera's catch
MediaRejects(id) ==
    /\ id \in mediaCalls
    /\ mediaCalls' = mediaCalls \ {id}
    /\ chatHistory' = Append(chatHistory, CameraError)
    /\ isChatOpen' = TRUE
    /\ isCameraActive' = FALSE
    /\ videoSrc' = 0
    /\ UNCHANGED <<showScannerModal, streams, fileReads>>
    /\ UNCHANGED <<chatInput, chatLoading, chatCalls, rendered>>
    /\ UNCHANGED <<issued, searchVars, detailVars, serverVars>>

\* processImage, up to its await
processImage ==
    /\ issued < MaxCalls
    /\ issued' = issued + 1
    /\ showScannerModal' = FALSE
    /\ stopCamera
    /\ loading' = TRUE
    /\ selectedMedicine' = Null
    /\ detailCalls' = detailCalls \cup
           {[id |-> issued + 1, kind |-> "image", about |-> ImageSubject]}
    /\ UNCHANGED <<mediaCalls, searchVars, chatVars, serverVars>>

\* capturePhoto: the shutter button under the video
capturePhoto ==
    /\ VideoMounted
    /\ processImage
    /\ UNCHANGED fileReads

\* handleFileUpload: a file was picked and is being read
handleFileUpload ==
    /\ showScannerModal
    /\ ~isCameraActive
    /\ issued + fileReads < MaxCalls
    /\ fileReads' = fileReads + 1
    /\ UNCHANGED <<showScannerModal, isCameraActive, videoSrc, mediaCalls, streams>>
    /\ UNCHANGED <<issued, searchVars, detailVars, chatVars, serverVars>>

\* reader.onloadend: with the data, or after a failed read, where
\* reader.result is null and the callback throws
ReadEnds(ok) ==
    /\ fileReads > 0
    /\ fileReads' = fileReads - 1
    /\ IF ok
       THEN processImage
       ELSE /\ UNCHANGED <<showScannerModal, isCameraActive, videoSrc, mediaCalls, streams>>
            /\ UNCHANGED <<issued, searchVars, detailVars, chatVars, serverVars>>

\* processImage, from its await on
ImageSettles(c, o) ==
    /\ c \in detailCalls
    /\ c.kind = "image"
    /\ LET result == callGeminiAPI(o)
           data == ParseReply(result.text)
           notice == IF result = Null THEN CommunicationError
                     ELSE IF data = SyntaxError THEN FormatError
                     ELSE NotIdentified
       IN  IF result # Null /\ HasName(data)
           THEN /\ selectedMedicine' = data
                /\ UNCHANGED <<chatHistory, isChatOpen>>
           ELSE /\ chatHistory' = Append(chatHistory, notice)
                /\ isChatOpen' = TRUE
                /\ UNCHANGED selectedMedicine
    /\ loading' = FALSE
    /\ detailCalls' = detailCalls \ {c}
    /\ UNCHANGED <<chatInput, chatLoading, chatCalls, rendered>>
    /\ UNCHANGED <<issued, searchVars, cameraVars, serverVars>>

----------------------------------------------------------------------------
(* The client: chat *)

\* values typed into the chat box
ChatTexts == {<<>>, <<" ">>, <<"h","i">>}

Apology == <<"I'm sorry, I couldn't process that request right now.">>

RECURSIVE trimStart(_)
trimStart(s) ==
    IF s # <<>> /\ Head(s) = " " THEN trimStart(Tail(s)) ELSE s

RECURSIVE trimEnd(_)
trimEnd(s) ==
    IF s # <<>> /\ s[Len(s)] = " " THEN trimEnd(SubSeq(s, 1, Len(s) - 1)) ELSE s

\* chatInput.trim()
trim(s) == trimEnd(trimStart(s))

\* onClick={() => setIsChatOpen(true)}
OpenChat ==
    /\ ~rendered.isChatOpen
    /\ isChatOpen' = TRUE
    /\ rendered' = [rendered EXCEPT !.isChatOpen = TRUE]
    /\ UNCHANGED <<chatHistory, chatInput, chatLoading, chatCalls>>
    /\ UNCHANGED <<issued, searchVars, detailVars, cameraVars, serverVars>>

\* onClick={() => setIsChatOpen(false)}
CloseChat ==
    /\ rendered.isChatOpen
    /\ isChatOpen' = FALSE
    /\ rendered' = [rendered EXCEPT !.isChatOpen = FALSE]
    /\ UNCHANGED <<chatHistory, chatInput, chatLoading, chatCalls>>
    /\ UNCHANGED <<issued, searchVars, detailVars, cameraVars, serverVars>>

\* onChange={(e) => setChatInput(e.target.value)}
TypeChat(v) ==
    /\ rendered.isChatOpen
    /\ v # chatInput
    /\ chatInput' = v
    /\ UNCHANGED <<isChatOpen, chatHistory, chatLoading, chatCalls, rendered>>
    /\ UNCHANGED <<issued, searchVars, detailVars, cameraVars, serverVars>>

\* handleSendMessage, up to its await: the form's onSubmit, which the
\* disabled submit button blocks while the screen shows chatLoading.
\* newHistory is built from the chatHistory of the render the handler
\* belongs to, and setChatHistory(newHistory) replaces whatever the state
\* holds
handleSendMessage ==
    /\ rendered.isChatOpen
    /\ ~rendered.chatLoading
    /\ IF trim(chatInput) = <<>>
       THEN UNCHANGED <<issued, chatHistory, chatInput, chatLoading, chatCalls, rendered>>
       ELSE /\ issued < MaxCalls
            /\ issued' = issued + 1
            /\ chatHistory' = Append(rendered.chatHistory,
                                      [role |-> "user", text |-> chatInput])
            /\ rendered' = [rendered EXCEPT !.chatHistory = chatHistory',
                                             !.chatLoading = TRUE]
            /\ chatInput' = <<>>
            /\ chatLoading' = TRUE
            /\ chatCalls' = chatCalls \cup {[id |-> issued + 1]}
    /\ UNCHANGED <<isChatOpen, searchVars, detailVars, cameraVars, serverVars>>

\* handleSendMessage, from its await on
ChatSettles(c, o) ==
    /\ c \in chatCalls
    /\ LET response == callGeminiAPI(o)
       IN  chatHistory' = Append(chatHistory,
               [role |-> "assistant",
                text |-> IF response = Null THEN Apology ELSE response.text])
    /\ chatLoading' = FALSE
    /\ chatCalls' = chatCalls \ {c}
    /\ UNCHANGED <<isChatOpen, chatInput, rendered>>
    /\ UNCHANGED <<issued, searchVars, detailVars, cameraVars, serverVars>>

\* the updates a handler makes in an event are rendered with the event;
\* those made after an await (the notices, the replies, the opening of the
\* chat with a notice) are rendered in a later task
Render ==
    /\ rendered # [chatHistory |-> chatHistory, isChatOpen |-> isChatOpen,
                   chatLoading |-> chatLoading]
    /\ rendered' = [chatHistory |-> chatHistory, isChatOpen |-> isChatOpen,
                    chatLoading |-> chatLoading]
    /\ UNCHANGED <<isChatOpen, chatHistory, chatInput, chatLoading, chatCalls>>
    /\ UNCHANGED <<issued, searchVars, detailVars, cameraVars, serverVars>>

----------------------------------------------------------------------------
(* The client as a whole *)

\* the page is open in a browser; no server of the repository takes part,
\* the client calls the generateContent endpoint itself
InitClient ==
    /\ variant = "client"
    /\ env = [GOOGLE_API_KEY |-> Undefined, PORT |-> Undefined]
    /\ envReads = {}
    /\ listening = FALSE
    /\ port = <<>>
    /\ reqs = [r \in ReqIds |-> IdleReq]
    /\ ClientStart

\* the user searches: the search box, the suggestions, the details
NextSearch ==
    \/ Tick
    \/ \E v \in QueryTexts : TypeQuery(v)
    \/ \E t \in timers : TimerFires(t)
    \/ \E c \in suggCalls : \E o \in Outcomes(c.q) : SuggestSettles(c, o)
    \/ \E name \in Offered : handleSelectMedicine(name)
    \/ \E c \in detailCalls : \E o \in Outcomes(c.about) : SelectSettles(c, o)
    \/ GoSearch

SpecSearch == InitClient /\ [][NextSearch]_vars

\* the user picks medicines and scans packages
NextScan ==
    \/ \E name \in Offered : handleSelectMedicine(name)
    \/ \E c \in detailCalls : \E o \in Outcomes(c.about) : SelectSettles(c, o)
    \/ OpenScanner
    \/ CloseScanner
    \/ CancelCamera
    \/ startCamera
    \/ \E id \in mediaCalls : MediaResolves(id)
    \/ \E id \in mediaCalls : MediaRejects(id)
    \/ capturePhoto
    \/ handleFileUpload
    \/ \E ok \in BOOLEAN : ReadEnds(ok)
    \/ \E c \in detailCalls : \E o \in Outcomes(c.about) : ImageSettles(c, o)

SpecScan == InitClient /\ [][NextScan]_vars

\* the user chats, and scans with the camera
NextChat ==
    \/ OpenChat
    \/ CloseChat
    \/ \E v \in ChatTexts : TypeChat(v)
    \/ handleSendMessage
    \/ \E c \in chatCalls : \E o \in Outcomes(<<"o","k">>) : ChatSettles(c, o)
    \/ Render
    \/ OpenScanner
    \/ startCamera
    \/ \E id \in mediaCalls : MediaRejects(id)
    \/ capturePhoto
    \/ \E c \in detailCalls : \E o \in Outcomes(c.about) : ImageSettles(c, o)

SpecChat == InitClient /\ [][NextChat]_vars

----------------------------------------------------------------------------
(* What an upstream reads in a URL *)

\* the character a percent escape stands for
EscapedChars == {" ", "%", "&", "=", "?"}

RECURSIVE decodeURIComponent(_)
decodeURIComponent(s) ==
    IF s = <<>> THEN <<>>
    ELSE IF s[1] = "%" /\ Len(s) >= 3
              /\ \E c \in EscapedChars : PercentCode(c) = SubSeq(s, 1, 3)
         THEN <<CHOOSE c \in EscapedChars : PercentCode(c) = SubSeq(s, 1, 3)>>
              \o decodeURIComponent(SubSeq(s, 4, Len(s)))
         ELSE <<s[1]>> \o decodeURIComponent(Tail(s))

\* the index of the first sep in s, or 0
IndexOf(s, sep) ==
    IF \E i \in 1..Len(s) : s[i] = sep
    THEN CHOOSE i \in 1..Len(s) : s[i] = sep /\ \A j \in 1..(i - 1) : s[j] # sep
    ELSE 0

RECURSIVE Split(_, _)
Split(s, sep) ==
    LET i == IndexOf(s, sep)
    IN  IF i = 0 THEN <<s>>
        ELSE <<SubSeq(s, 1, i - 1)>> \o Split(SubSeq(s, i + 1, Len(s)), sep)

\* one name=value segment, decoded
Segment(seg) ==
    LET i == IndexOf(seg, "=")
    IN  IF i = 0 THEN <<decodeURIComponent(seg), <<>>>>
        ELSE <<decodeURIComponent(SubSeq(seg, 1, i - 1)),
               decodeURIComponent(SubSeq(seg, i + 1, Len(seg)))>>

\* the endpoint of a URL and the list of its name=value segments
UrlBase(url) == SubSeq(url, 1, IndexOf(url, "?") - 1)

UrlParams(url) ==
    LET segs == Split(SubSeq(url, IndexOf(url, "?") + 1, Len(url)), "&")
    IN  [i \in 1..Len(segs) |-> Segment(segs[i])]

\* the last name=value segment of a URL, decoded
LastParam(url) ==
    LET starts == {i \in 1..Len(url) : url[i] \in {"?", "&"}}
        last   == CHOOSE i \in starts : \A j \in starts : j <= i
    IN  Segment(SubSeq(url, last + 1, Len(url)))

QueryName == <<"q","u","e","r","y">>

KeyName == <<"k","e","y">>

----------------------------------------------------------------------------
(* Vocabulary of the properties *)

Handled(r) == reqs[r].pc # "idle" /\ reqs[r].sent # <<>>

InFlight(r) == reqs[r].pc \in {"fetch", "json"}

Settled(r) == reqs[r].up.state \in {"rejected", "body", "badbody"}

Failed(r) == reqs[r].up.state \in {"rejected", "badbody"}

Google(r) == reqs[r].pc # "idle" /\ reqs[r].route = "google"

Gemini(r) == reqs[r].pc # "idle" /\ reqs[r].route = "gemini" /\ variant = "index"

ErrorText(route) == IF route = "google" THEN "Server Error" ELSE "Server error"

\* the response the relay owes a request, from the request's route and the
\* outcome of its own upstream call
Owed(r) ==
    IF Failed(r)
    THEN [status |-> 500,
          body |-> [error |-> ErrorText(reqs[r].route), message |-> reqs[r].up.err]]
    ELSE [status |-> IF reqs[r].route = "google" THEN 200 ELSE reqs[r].up.status,
          body |-> reqs[r].up.data]

\* the upstream call a request owes, from its own input and the configuration
OwedCall(r) ==
    IF reqs[r].route = "google"
    THEN [method |-> "GET", url |-> PlacesUrl(reqs[r].query, env.GOOGLE_API_KEY),
          body |-> <<>>]
    ELSE [method |-> "POST", url |-> GeminiUrl(env.GOOGLE_API_KEY),
          body |-> JSONstringify(JSONparse(reqs[r].raw))]

----------------------------------------------------------------------------
(* Properties of the relay *)

\* C1: every GET /google?query=X with a non-empty string X has issued exactly
\* one upstream call, a GET of the Places endpoint whose query segment decodes
\* to X and whose key segment is the configured GOOGLE_API_KEY, and when the
\* upstream's body decoded, the body of the one response is that body.
C1_GoogleRelaysQuery ==
    \A r \in ReqIds :
        (Google(r) /\ reqs[r].query \in Queries) =>
            /\ Len(reqs[r].sent) = 1
            /\ reqs[r].sent[1].method = "GET"
            /\ UrlBase(reqs[r].sent[1].url) = PlacesBase
            /\ UrlParams(reqs[r].sent[1].url) =
                   << <<QueryName, reqs[r].query>>,
                      <<KeyName, StringOf(env.GOOGLE_API_KEY)>> >>
            /\ reqs[r].up.state = "body" =>
                   /\ Len(reqs[r].res) = 1
                   /\ reqs[r].res[1].body = reqs[r].up.data

\* a query holding reserved characters was relayed and answered
C1_Witness ==
    \E r \in ReqIds :
        /\ Google(r)
        /\ \E i \in 1..Len(reqs[r].query) : reqs[r].query[i] = "&"
        /\ env.GOOGLE_API_KEY = <<"K","1">>
        /\ reqs[r].pc = "done"
        /\ reqs[r].up.state = "body"

C3_FailuresAnswered500 ==
    \A r \in ReqIds :
        Failed(r) =>
            /\ reqs[r].pc = "done"
            /\ Len(reqs[r].res) = 1
            /\ reqs[r].res[1].status = 500
            /\ DOMAIN reqs[r].res[1].body = {"error", "message"}
            /\ reqs[r].res[1].body.error = ErrorText(reqs[r].route)
            /\ reqs[r].res[1].body.message = reqs[r].up.err

\* a /google request failed one way and a /gemini request the other way
C3_Witness ==
    \E r, q \in ReqIds :
        /\ reqs[r].route = "google" /\ reqs[r].up.state = "rejected"
        /\ reqs[q].route = "gemini" /\ reqs[q].up.state = "badbody"

\* C4: when the upstream's body decoded, /google has answered 200 with that
\* body whatever the upstream's status was, while /gemini has answered with
\* the upstream's status.
C4_GoogleAlways200 ==
    \A r \in ReqIds :
        (reqs[r].up.state = "body") =>
            /\ Google(r) => reqs[r].res = <<[status |-> 200, body |-> reqs[r].up.data]>>
            /\ Gemini(r) => reqs[r].res[1].status = reqs[r].up.status

\* the upstream answered /google's call with an error status and a JSON body
C4_Witness ==
    \E r \in ReqIds :
        /\ Google(r)
        /\ reqs[r].up.state = "body"
        /\ reqs[r].up.status = 403
        /\ reqs[r].pc = "done"

\* C5 as stated: a GET /google whose query parameter is absent ends with
\* HTTP 500 and the body {error: "Server Error", message}.
C5_AbsentQueryEnds500 ==
    \A r \in ReqIds :
        (Google(r) /\ reqs[r].query = Undefined /\ reqs[r].pc = "done") =>
            /\ reqs[r].res[1].status = 500
            /\ "error" \in DOMAIN reqs[r].res[1].body
            /\ reqs[r].res[1].body.error = "Server Error"

\* C5, amended: a GET /google whose query parameter is absent is not answered
\* locally: it issues its one upstream call, with the text "undefined" as the
\* query segment, and ends as any other /google request does, with 200 and the
\* upstream's body when that body decoded and with the 500 error body only
\* when the call rejected or the body failed to decode.
C5_AbsentQueryRelayed ==
    \A r \in ReqIds :
        (Google(r) /\ reqs[r].query = Undefined) =>
            /\ Len(reqs[r].sent) = 1
            /\ UrlParams(reqs[r].sent[1].url)[1] =
                   <<QueryName, <<"u","n","d","e","f","i","n","e","d">>>>
            /\ reqs[r].pc = "done" =>
                   /\ Settled(r)
                   /\ reqs[r].res = <<Owed(r)>>
                   /\ reqs[r].res[1].status = IF Failed(r) THEN 500 ELSE 200

\* a request without query was answered 200 with the upstream's body
C5_Witness ==
    \E r \in ReqIds :
        /\ Google(r)
        /\ reqs[r].query = Undefined
        /\ reqs[r].pc = "done"
        /\ reqs[r].up.state = "body"
        /\ reqs[r].res[1].status = 200

\* C6: a request has issued at most one upstream call and has been written at
\* most one response; while its handler waits, it has issued exactly one call
\* and has no response yet, and once its handler has ended, on every path, it
\* has exactly one response.
C6_OneCallOneResponse ==
    \A r \in ReqIds :
        /\ Len(reqs[r].sent) <= 1
        /\ Len(reqs[r].res) <= 1
        /\ InFlight(r) => (Len(reqs[r].sent) = 1 /\ reqs[r].res = <<>>)
        /\ reqs[r].pc = "done" => Len(reqs[r].res) = 1

\* a request whose upstream call rejected has ended
C6_Witness ==
    \E r \in ReqIds :
        /\ reqs[r].up.state = "rejected"
        /\ reqs[r].pc = "done"
        /\ Len(reqs[r].sent) = 1
        /\ Len(reqs[r].res) = 1

\* each request's call and response are the ones its own input and the
\* outcome of its own call determine
OwnResult ==
    \A r \in ReqIds :
        Handled(r) =>
            /\ reqs[r].sent = <<OwedCall(r)>>
            /\ reqs[r].pc = "done" => reqs[r].res = <<Owed(r)>>

\* a step changes the record of at most one request
OneRequestPerStep ==
    \A r, q \in ReqIds :
        (r # q /\ reqs'[r] # reqs[r]) => reqs'[q] = reqs[q]

\* C7: whatever the number of requests in flight and the order in which their
\* upstream calls complete, a request's upstream call and response are
\* determined by its own input and the outcome of its own call, and no step
\* of a handler touches another request.
C7_RequestsIsolated == []OwnResult /\ [][OneRequestPerStep]_vars

\* two requests were in flight together, with different upstream outcomes,
\* and the later one was answered first
C7_Witness ==
    \E r, q \in ReqIds :
        /\ r < q
        /\ reqs[r].pc = "json" /\ reqs[r].up.status = 403
        /\ reqs[q].pc = "done" /\ reqs[q].up.state = "body"
        /\ reqs[q].up.status = 200
        /\ reqs[q].route = reqs[r].route

\* a request has a response only when its own upstream call has settled
NoResponseBeforeSettled ==
    \A r \in ReqIds :
        /\ (Handled(r) /\ reqs[r].res # <<>>) => Settled(r)
        /\ InFlight(r) => (~Settled(r) /\ reqs[r].res = <<>>)

\* a step that does not bring news of a request's upstream call leaves the
\* request waiting, without a response
NoTimeout ==
    \A r \in ReqIds :
        (InFlight(r) /\ reqs'[r].up = reqs[r].up) =>
            /\ reqs'[r].pc = reqs[r].pc
            /\ reqs'[r].res = <<>>

\* a waiting request keeps no other request from being accepted or resumed
OthersNotBlocked ==
    \A r, q \in ReqIds :
        (r # q /\ InFlight(r)) =>
            /\ CanAccept(q) => ENABLED GetGoogle(q, <<"p"," ","n">>)
            /\ reqs[q].pc = "fetch" => ENABLED FetchResolves(q, 200)
            /\ reqs[q].pc = "json" => ENABLED JsonResolves(q, [results |-> "places"])

\* C8: a response is written for a request only once its upstream call has
\* settled; there is no timeout, so a request whose call stays unresolved
\* stays pending without a response, and it does not block other requests.
C8_WaitsForUpstream ==
    /\ [](NoResponseBeforeSettled /\ OthersNotBlocked)
    /\ [][NoTimeout]_vars

\* the first request still waits on its upstream call while a request that
\* arrived after it has been answered
C8_Witness ==
    /\ MaxReq >= 2
    /\ reqs[1].pc = "fetch"
    /\ reqs[1].res = <<>>
    /\ reqs[2].pc = "done"
    /\ Settled(2)

KeyUnset == env.GOOGLE_API_KEY \in {Undefined, <<>>}

\* C9: with GOOGLE_API_KEY unset (or empty), a request to either route is not
\* answered locally: it has issued its upstream call, whose key segment is the
\* text "undefined" (or empty), and its response is the one the relay owes
\* for the outcome of that call.
C9_MissingKeyStillCalls ==
    KeyUnset =>
        \A r \in ReqIds :
            (Google(r) \/ Gemini(r)) =>
                /\ Len(reqs[r].sent) = 1
                /\ LastParam(reqs[r].sent[1].url) =
                         <<KeyName,
                           IF env.GOOGLE_API_KEY = Undefined
                           THEN <<"u","n","d","e","f","i","n","e","d">> ELSE <<>>>>
                /\ reqs[r].pc = "done" => (Settled(r) /\ reqs[r].res = <<Owed(r)>>)

\* without a key, a request to each route was relayed and answered
C9_Witness ==
    /\ env.GOOGLE_API_KEY = Undefined
    /\ \E r, q \in ReqIds :
        /\ reqs[r].route = "google" /\ reqs[r].pc = "done" /\ reqs[r].up.state = "body"
        /\ reqs[q].route = "gemini" /\ reqs[q].pc = "done" /\ reqs[q].up.state = "body"

\* every upstream call made so far carries the key the environment holds
CallsCarryKey ==
    \A r \in ReqIds :
        \A i \in 1..Len(reqs[r].sent) :
            LastParam(reqs[r].sent[i].url) = <<KeyName, StringOf(env.GOOGLE_API_KEY)>>

\* C10 as stated: the key and the port are read from the environment at
\* process start only, no handler reads or writes the environment, and every
\* upstream call carries the key.
C10_ConfigReadAtStartOnly ==
    /\ \A e \in envReads : e[2] = "startup"
    /\ CallsCarryKey

PortReadAtStart ==
    /\ \A e \in envReads :
          \/ e = <<"PORT", "startup">>
          \/ e = <<"GOOGLE_API_KEY", "handler">>
    /\ listening =>
          /\ <<"PORT", "startup">> \in envReads
          /\ port = IF env.PORT \in {Undefined, <<>>} THEN <<"3","0","0","0">> ELSE env.PORT
    /\ (\E r \in ReqIds : Handled(r)) => <<"GOOGLE_API_KEY", "handler">> \in envReads

\* C10, amended: the listen port is read from the environment once, at process
\* start, and is 3000 when PORT is unset; the API key is not read at start but
\* read from the environment by the handler on every request; no step of the
\* program writes the environment, so every upstream call of one process
\* lifetime carries the key value the environment held at startup.
C10_ConfigReadOnly ==
    /\ [](PortReadAtStart /\ CallsCarryKey)
    /\ [][env' = env]_vars

\* the server listens on the default port and has relayed a request with the
\* configured key
C10_Witness ==
    /\ listening
    /\ env.PORT = Undefined
    /\ port = <<"3","0","0","0">>
    /\ env.GOOGLE_API_KEY = <<"K","1">>
    /\ \E r \in ReqIds : Handled(r) /\ reqs[r].pc = "done"

\* C11: given the same GET /google request (OPTIONS preflight likewise) and
\* the same upstream outcome, src/index.js and src/server/index.js have issued
\* the same upstream call and written the same response, status, body and
\* headers; on POST /gemini they differ: src/index.js issues its call and
\* src/server/index.js answers 404 without one.
C11_VariantsAgreeOnGoogle ==
    LET a == reqs[IndexSlot]
        b == reqs[ServerSlot]
    IN  /\ a.route # "gemini" =>
              /\ a.pc = b.pc
              /\ a.sent = b.sent
              /\ a.res = b.res
              /\ a.hdr = b.hdr
        /\ (a.route = "gemini" /\ a.pc # "idle") =>
              /\ Len(a.sent) = 1
              /\ b.sent = <<>>
              /\ b.res = <<[status |-> 404, body |-> [notFound |-> "/gemini"]]>>

\* both programs answered the same /google request after the upstream sent
\* an error status with a JSON body
C11_Witness ==
    /\ reqs[IndexSlot].route = "google" /\ reqs[IndexSlot].pc = "done"
    /\ reqs[ServerSlot].route = "google" /\ reqs[ServerSlot].pc = "done"
    /\ reqs[IndexSlot].up.state = "body" /\ reqs[IndexSlot].up.status = 403
    /\ reqs[ServerSlot].res # <<>>

\* C12: in both programs every response, the 500 error responses included,
\* carries Access-Control-Allow-Origin: *, and an OPTIONS preflight to /google
\* or /gemini has been answered with a success status and a list of allowed
\* methods holding GET and POST, without any upstream call.
C12_CorsOnEveryResponse ==
    \A r \in {IndexSlot, ServerSlot} :
        /\ reqs[r].res # <<>> =>
              /\ "origin" \in DOMAIN reqs[r].hdr
              /\ reqs[r].hdr.origin = "*"
        /\ reqs[r].route \in Paths =>
              /\ reqs[r].pc = "done"
              /\ reqs[r].sent = <<>>
              /\ Len(reqs[r].res) = 1
              /\ reqs[r].res[1].status \in 200..299
              /\ "methods" \in DOMAIN reqs[r].hdr
              /\ {"GET", "POST"} \subseteq reqs[r].hdr.methods

\* a preflight to /gemini was answered by both programs
C12_Witness ==
    /\ reqs[IndexSlot].route = "OPTIONS /gemini" /\ reqs[IndexSlot].res # <<>>
    /\ reqs[ServerSlot].route = "OPTIONS /gemini" /\ reqs[ServerSlot].res # <<>>

----------------------------------------------------------------------------
(* Properties of the client *)

\* the timer t ran its callback in this step
Fired(t) == t \in timers /\ timers' = timers \ {t} /\ query' = query

\* C13: suggestions are debounced.  At most one timer is pending and it is
\* the timer of the current query; a suggestion call is started only for the
\* current query, of at least 3 characters, whose timer is at least 600 ms old
\* (the query has not changed since the timer was set); and a timer that
\* fires for a query of fewer than 3 characters clears the suggestions and
\* starts no call.
C13_SuggestionsDebounced ==
    /\ [](Cardinality(timers) <= 1 /\ \A t \in timers : t.q = query)
    /\ [][/\ \A c \in suggCalls' \ suggCalls :
                /\ c.q = query
                /\ Len(c.q) >= 3
                /\ \E t \in timers : Fired(t) /\ t.q = c.q /\ t.age >= 600
          /\ \A t \in timers :
                (Fired(t) /\ Len(t.q) < 3) =>
                    /\ suggestions' = <<>>
                    /\ suggCalls' = suggCalls
                    /\ issued' = issued]_vars

\* the timer of the empty query was cancelled by typing, the timer of the
\* typed query has fired and its call, the only one so far, is in flight
C13_Witness ==
    /\ \E c \in suggCalls : c.q = query /\ c.q = <<"i","b","u">>
    /\ timers = {}
    /\ issued = 1

\* the suggestions a reply to a call about q carries
SuggestionsFor(q) == ParseReply(ArrayText(q)).items

\* C14: a suggestion response never replaces the suggestions list by
\* anything but the empty list or the result for the current query, also
\* when it arrives for an older query or after handleSelectMedicine cleared
\* the list.
C14_SuggestionsMatchQuery ==
    [][suggestions' # suggestions =>
           (suggestions' = <<>> \/ suggestions' = SuggestionsFor(query'))]_vars

\* C15: loading is true whenever a details request or an image analysis is
\* in flight, two overlapping requests included.
C15_LoadingWhileInFlight == detailCalls # {} => loading

\* C16: with the scanner modal closed, or the camera stopped, no media
\* stream is live and isCameraActive is false, whenever getUserMedia settles.
C16_NoLiveTrackAfterStop ==
    (~showScannerModal \/ ~isCameraActive) => (streams = {} /\ ~isCameraActive)

IsPrefix(s, t) == Len(s) <= Len(t) /\ SubSeq(t, 1, Len(s)) = s

\* C17: the chat history is append-only and paired.  Every step keeps the
\* entries the history holds and appends at most one; a submit that starts a
\* call appends one user entry, a blank submit starts none; a call that
\* settles appends one assistant entry and leaves chatLoading false.
C17_ChatAppendOnly ==
    [][/\ IsPrefix(chatHistory, chatHistory')
       /\ Len(chatHistory') <= Len(chatHistory) + 1
       /\ (chatCalls' \ chatCalls # {} =>
              /\ trim(chatInput) # <<>>
              /\ chatHistory' = Append(chatHistory, [role |-> "user", text |-> chatInput]))
       /\ (chatCalls \ chatCalls' # {} =>
              /\ Len(chatHistory') = Len(chatHistory) + 1
              /\ chatHistory'[Len(chatHistory')].role = "assistant"
              /\ ~chatLoading')]_vars

====
